---- MODULE Spec2Model ----
(***************************************************************************)
(* Model of cleanup.py: discovery of EC2 instances and their related       *)
(* resources (get_instances_details) followed by the ordered teardown of   *)
(* main(): EKS node groups and cluster, then per instance the ASG, the     *)
(* IAM profile association and the instance, then the VPC.                 *)
(*                                                                         *)
(* The provider (boto3 clients) is the variable aws.  Every provider call  *)
(* the program issues is appended to the log trace, read calls and mutating*)
(* calls alike, in the order they are issued.  A provider call may raise   *)
(* (botocore ClientError); the code catches nothing, so the exception ends *)
(* the run (pc = "failed").                                                *)
(*                                                                         *)
(* Fields of an instance record that no operation reads back (LaunchTime,  *)
(* NetworkInterfaceId, SecurityGroupIds, BlockDeviceMappings) are printed  *)
(* only and are left out of the records.                                   *)
(***************************************************************************)
EXTENDS Integers, Sequences, FiniteSets, TLC

\* ------------------------------------------------------------------ bounds

\* number of instances known to the provider
MaxInst == 2
\* number of node groups of a managed cluster
MaxNodegroups == 2

\* ------------------------------------------------------- program constants

\* the string sentinel the code uses for "absent"
NA == "N/A"
\* Python's None (an argument not given, an instance without VpcId, no cluster)
NONE == "None"

\* ------------------------------------------------------ provider universe

InstanceNames == <<"i-1", "i-2", "i-3", "i-4">>
AddressNames == <<"ip-1", "ip-2", "ip-3", "ip-4">>
NodegroupNames == <<"ng-1", "ng-2", "ng-3", "ng-4">>

InstIdx == 1..MaxInst
InstanceIds == {InstanceNames[k] : k \in InstIdx}

Vpcs == {"vpc-1", "vpc-2"}

\* internet gateways, subnets and endpoints of each network, in the order the
\* provider lists them
VpcIgws(v) ==
    IF v = "vpc-1" THEN <<"igw-1", "igw-2">>
    ELSE IF v = "vpc-2" THEN <<"igw-3">>
    ELSE <<>>

VpcSubnets(v) ==
    IF v = "vpc-1" THEN <<"subnet-1", "subnet-2">>
    ELSE IF v = "vpc-2" THEN <<"subnet-3">>
    ELSE <<>>

VpcEndpoints(v) ==
    IF v = "vpc-1" THEN <<"vpce-1">>
    ELSE <<>>

\* node groups of a cluster, in the order list_nodegroups returns them
ClusterNodegroups(c) ==
    IF c = "eks-a" THEN SubSeq(NodegroupNames, 1, MaxNodegroups)
    ELSE <<>>

\* the kinds of instance a provider account holds
InstanceKinds ==
    { [state |-> "running", vpc |-> "vpc-1", asg |-> "asg-1", profile |-> "arn/p1", ng |-> NA],
      [state |-> "stopped", vpc |-> "vpc-1", asg |-> NA,      profile |-> "arn/p1", ng |-> NA],
      [state |-> "running", vpc |-> "vpc-2", asg |-> NA,      profile |-> "arn/p2", ng |-> NA],
      [state |-> "running", vpc |-> NONE,    asg |-> NA,      profile |-> NA,       ng |-> NA],
      [state |-> "running", vpc |-> "vpc-1", asg |-> NA,      profile |-> NA,       ng |-> "ng-1"] }

\* the managed clusters of an account, as list_clusters lists them
ClusterLists ==
    { <<>>,
      << [name |-> "eks-a", vpc |-> "vpc-1"] >>,
      << [name |-> "eks-b", vpc |-> "vpc-2"], [name |-> "eks-a", vpc |-> "vpc-1"] >> }

\* ------------------------------------------------------------- sequences

Range(s) == {s[k] : k \in 1..Len(s)}

RECURSIVE SelectIn(_, _)
\* the elements of s that are in set S, in the order of s
SelectIn(s, S) ==
    IF s = <<>> THEN <<>>
    ELSE IF Head(s) \in S THEN <<Head(s)>> \o SelectIn(Tail(s), S)
    ELSE SelectIn(Tail(s), S)

\* --------------------------------------------------------------- state

VARIABLES
    aws,        \* the provider's state (the account the boto3 clients talk to)
    args,       \* argparse's result: instance_id, public_ip, vpc_id, no_dry_run
    pc,         \* main's position
    resources,  \* main's local resources: the ResourceSet in use
    first,      \* the ResourceSet of the first get_instances_details call
    vpc_id,     \* main's local vpc_id
    idx,        \* index of the record the instance loop is at
    node_groups,\* delete_eks_cluster's local node_groups
    ng_idx,     \* index into node_groups of the delete loop or the wait loop
    trace,      \* provider calls issued by this run, in order
    run,        \* 1 for the first run of the tool, 2 for a re-run
    removed,    \* in a re-run: the resources the first run removed
    step,       \* the destructive step invoked on its own: [kind, target]
    invoked     \* how many times step was invoked

vars == <<aws, args, pc, resources, first, vpc_id, idx, node_groups, ng_idx,
          trace, run, removed, step, invoked>>

\* ---------------------------------------------------- provider: queries

IdxOf(i) == CHOOSE k \in 1..Len(InstanceNames) : InstanceNames[k] = i

\* instance ids in the order describe_instances returns them
AllInstances == [k \in InstIdx |-> InstanceNames[k]]

PublicIp(i) == AddressNames[IdxOf(i)]

\* describe_instances(Filters=[vpc-id = v]): the ids of the instances in network v
DescribeInstancesInVpc(w, v) ==
    SelectIn(AllInstances, {i \in InstanceIds : w.inst[i].vpc = v})

\* describe_instances(Filters=filters): a filter that is not given constrains
\* nothing, so an empty filter list matches every instance of the account
DescribeInstances(w, ids, ips) ==
    SelectIn(AllInstances,
             {i \in InstanceIds : /\ (ids # {} => i \in ids)
                                  /\ (ips # {} => PublicIp(i) \in ips)})

\* describe_internet_gateways(Filters=[attachment.vpc-id = v])
DescribeInternetGateways(w, v) == SelectIn(VpcIgws(v), w.igwAttached)

\* describe_subnets(Filters=[vpc-id = v])
DescribeSubnets(w, v) == SelectIn(VpcSubnets(v), w.subnets)

\* describe_vpc_endpoints(Filters=[vpc-id = v])
DescribeVpcEndpoints(w, v) == SelectIn(VpcEndpoints(v), w.endpoints)

\* describe_iam_instance_profile_associations(): every association of the
\* account; an association is identified by the instance that holds it
DescribeAssociations(w) == SelectIn(AllInstances, w.assoc)

\* list_nodegroups(clusterName=c)
ListNodegroups(w, c) == SelectIn(ClusterNodegroups(c), w.ngs)

\* get_autoscaling_group
get_autoscaling_group(w, i) ==
    IF w.inst[i].asg # NA /\ w.inst[i].asg \in w.asgs THEN w.inst[i].asg ELSE NA

RECURSIVE FirstClusterIn(_, _)
FirstClusterIn(cs, v) ==
    IF cs = <<>> THEN NONE
    ELSE IF Head(cs).vpc = v THEN Head(cs).name
    ELSE FirstClusterIn(Tail(cs), v)

\* get_eks_cluster: the first listed cluster whose vpcId is v
get_eks_cluster(w, v) == FirstClusterIn(w.clusters, v)

RECURSIVE DescribedBefore(_, _)
\* the describe_cluster calls get_eks_cluster issues: one per listed cluster
\* up to and including the first match
DescribedBefore(cs, v) ==
    IF cs = <<>> THEN <<>>
    ELSE IF Head(cs).vpc = v THEN <<Head(cs).name>>
    ELSE <<Head(cs).name>> \o DescribedBefore(Tail(cs), v)

\* a provider call: a read (a describe, a list, a waiter) or a mutating call
Read(op, arg) == [op |-> op, arg |-> arg, mut |-> FALSE]

Mut(op, arg) == [op |-> op, arg |-> arg, mut |-> TRUE]

\* the read calls of one get_eks_cluster(v)
EksReads(w, v) ==
    <<Read("list_clusters", NONE)>>
    \o [k \in 1..Len(DescribedBefore(w.clusters, v)) |->
            Read("describe_cluster", DescribedBefore(w.clusters, v)[k])]

\* ------------------------------------------------------------ discovery

\* the resources dict of get_instances_details before anything is found;
\* orphans says whether the keys InternetGatewayIds and SubnetIds are set
EmptyResources(v) ==
    [Eks |-> NONE, VpcId |-> v, Instances |-> <<>>, orphans |-> FALSE,
     InternetGatewayIds |-> <<>>, SubnetIds |-> <<>>]

\* instance_data of one retained instance
InstanceData(w, i) ==
    LET v == w.inst[i].vpc IN
    [InstanceId |-> i,
     PublicIpAddress |-> PublicIp(i),
     State |-> w.inst[i].state,
     VpcId |-> v,
     InternetGatewayIds |-> IF v # NONE THEN DescribeInternetGateways(w, v) ELSE <<>>,
     SubnetIds |-> IF v # NONE THEN DescribeSubnets(w, v) ELSE <<>>,
     IamInstanceProfile |-> IF i \in w.assoc THEN w.inst[i].profile ELSE NA,
     AutoScalingGroup |-> get_autoscaling_group(w, i)]

\* the read calls of an instance whose network lookups are not guarded by VpcId
InstanceReadsUnguarded(w, i, lookEks) ==
    LET v == w.inst[i].vpc IN
    <<Read("describe_auto_scaling_instances", i),
      Read("describe_internet_gateways", v), Read("describe_subnets", v)>>
    \o (IF lookEks THEN EksReads(w, v) ELSE <<>>)

\* the read calls made while one retained instance is assembled
InstanceReads(w, i, lookEks) ==
    LET v == w.inst[i].vpc IN
    <<Read("describe_auto_scaling_instances", i)>>
    \o (IF v # NONE
        THEN <<Read("describe_internet_gateways", v), Read("describe_subnets", v)>>
        ELSE <<>>)
    \o (IF lookEks THEN EksReads(w, v) ELSE <<>>)

\* the state filter without "stopped"
SkippedStatesTerminatedOnly == {"terminated"}

SkippedStates == {"stopped", "terminated"}

RECURSIVE DiscoverLoop(_, _, _)
\* the loop over the instances of the response: acc is [res, reads]
DiscoverLoop(w, insts, acc) ==
    IF insts = <<>> THEN acc
    ELSE LET i == Head(insts) IN
         IF w.inst[i].state \in SkippedStates
         THEN DiscoverLoop(w, Tail(insts), acc)
         ELSE LET lookEks == acc.res.Eks = NONE
                  res1 == [acc.res EXCEPT
                             !.Instances = Append(@, InstanceData(w, i)),
                             !.Eks = IF lookEks
                                     THEN get_eks_cluster(w, w.inst[i].vpc)
                                     ELSE @]
              IN DiscoverLoop(w, Tail(insts),
                              [res |-> res1,
                               reads |-> acc.reads \o InstanceReads(w, i, lookEks)])

\* the network-only result of get_instances_details
NetworkOnly(w, v) ==
    [EmptyResources(v) EXCEPT
        !.orphans = TRUE,
        !.InternetGatewayIds = DescribeInternetGateways(w, v),
        !.SubnetIds = DescribeSubnets(w, v),
        !.Eks = get_eks_cluster(w, v)]

\* whether the query by network id takes the early return
NoInstancesInVpc(w, v) == DescribeInstancesInVpc(w, v) = <<>>

\* get_instances_details without the check of its arguments
InvalidQueryNever(instance_id, public_ip, v) == FALSE

\* get_instances_details: no filter was built and no network id was given
InvalidQuery(instance_id, public_ip, v) ==
    instance_id = {} /\ public_ip = {} /\ v = NONE

\* get_instances_details: [raised, res, reads]
get_instances_details(w, instance_id, public_ip, v) ==
    LET vpcReads == IF v # NONE THEN <<Read("describe_instances_in_vpc", v)>> ELSE <<>>
    IN
    IF v # NONE /\ NoInstancesInVpc(w, v)
    THEN [raised |-> FALSE,
          res |-> NetworkOnly(w, v),
          reads |-> vpcReads
                    \o <<Read("describe_internet_gateways", v), Read("describe_subnets", v)>>
                    \o EksReads(w, v)]
    ELSE IF InvalidQuery(instance_id, public_ip, v)
    THEN [raised |-> TRUE, res |-> EmptyResources(v), reads |-> vpcReads]
    ELSE LET out == DiscoverLoop(w, DescribeInstances(w, instance_id, public_ip),
                                 [res |-> EmptyResources(v),
                                  reads |-> vpcReads \o <<Read("describe_instances", NONE)>>])
         IN [raised |-> FALSE, res |-> out.res, reads |-> out.reads]

\* --------------------------------------------------- provider: mutations

\* whether the resource a mutating call names exists at the provider; a call
\* that names none is answered with a NotFound error
TargetExists(w, c) ==
    CASE c.op = "delete_auto_scaling_group" -> c.arg \in w.asgs
      [] c.op = "disassociate_iam_instance_profile" -> c.arg \in w.assoc
      [] c.op = "terminate_instances" -> c.arg \in InstanceIds
      [] c.op = "delete_vpc_endpoints" -> c.arg \in w.endpoints
      [] c.op = "detach_internet_gateway" -> c.arg \in w.igwAttached
      [] c.op = "delete_internet_gateway" -> c.arg \in w.igws
      [] c.op = "delete_subnet" -> c.arg \in w.subnets
      [] c.op = "delete_vpc" -> c.arg \in w.vpcs
      [] c.op = "delete_nodegroup" -> c.arg \in w.ngs
      [] c.op = "delete_cluster" -> c.arg \in {w.clusters[k].name : k \in 1..Len(w.clusters)}
      [] OTHER -> TRUE

\* the provider's state after it accepted call c; node groups, clusters and
\* instances are deleted asynchronously
Apply(w, c) ==
    CASE c.op = "delete_auto_scaling_group" -> [w EXCEPT !.asgs = @ \ {c.arg}]
      [] c.op = "disassociate_iam_instance_profile" -> [w EXCEPT !.assoc = @ \ {c.arg}]
      [] c.op = "terminate_instances" ->
            [w EXCEPT !.inst[c.arg].state =
                         IF @ = "terminated" THEN @ ELSE "shutting-down"]
      [] c.op = "delete_vpc_endpoints" -> [w EXCEPT !.endpoints = @ \ {c.arg}]
      [] c.op = "detach_internet_gateway" -> [w EXCEPT !.igwAttached = @ \ {c.arg}]
      [] c.op = "delete_internet_gateway" -> [w EXCEPT !.igws = @ \ {c.arg}]
      [] c.op = "delete_subnet" -> [w EXCEPT !.subnets = @ \ {c.arg}]
      [] c.op = "delete_vpc" -> [w EXCEPT !.vpcs = @ \ {c.arg}]
      [] c.op = "delete_nodegroup" -> [w EXCEPT !.ngDeleting = @ \cup {c.arg}]
      [] c.op = "delete_cluster" -> [w EXCEPT !.clusterDeleting = @ \cup {c.arg}]
      [] OTHER -> w

RECURSIVE ApplyAll(_, _)
ApplyAll(w, cs) == IF cs = <<>> THEN w ELSE ApplyAll(Apply(w, Head(cs)), Tail(cs))

\* the log entries of the calls cs issued for record rec from provider state w:
\* the first n returned, and the next one, if any, raised; exists records
\* whether the resource the call names existed when the call was issued
Logged(w, cs, n, rec) ==
    [k \in 1..(IF n < Len(cs) THEN n + 1 ELSE n) |->
        [op |-> cs[k].op, arg |-> cs[k].arg, mut |-> cs[k].mut,
         rec |-> rec, ok |-> k <= n,
         exists |-> TargetExists(ApplyAll(w, SubSeq(cs, 1, k - 1)), cs[k])]]

\* the numbers n such that the first n calls of cs can all return: every one
\* of them names a resource that exists when it is issued
Returning(w, cs) ==
    {n \in 0..Len(cs) :
        \A k \in 1..n : TargetExists(ApplyAll(w, SubSeq(cs, 1, k - 1)), cs[k])}

\* ------------------------------------------------- the destructive steps
\* Each step is the sequence of provider calls the function issues when no
\* call raises, computed from the provider state at its start.

\* terminate_asg without its delete call
terminate_asg_no_delete(asg_name) == <<>>

\* terminate_asg
terminate_asg(asg_name) ==
    IF asg_name = NA THEN <<>>
    ELSE <<Mut("delete_auto_scaling_group", asg_name)>>

\* the associations detach_iam_instance_profile disassociates: every listed
\* association whose profile Arn equals instance_profile_arn
MatchingAssociations(w, arn) ==
    SelectIn(DescribeAssociations(w), {i \in InstanceIds : w.inst[i].profile = arn})

\* detach_iam_instance_profile
detach_iam_instance_profile(w, arn) ==
    IF arn = NA THEN <<>>
    ELSE <<Read("describe_iam_instance_profile_associations", NONE)>>
         \o [k \in 1..Len(MatchingAssociations(w, arn)) |->
                Mut("disassociate_iam_instance_profile", MatchingAssociations(w, arn)[k])]

\* terminate_instance without its terminate call: the waiter alone
terminate_instance_no_call(instance_id) == <<>>

\* terminate_instance, up to the waiter
terminate_instance(instance_id) ==
    IF instance_id = NA THEN <<>>
    ELSE <<Mut("terminate_instances", instance_id)>>

\* delete_subnet
delete_subnet(subnet_id) ==
    IF subnet_id = NA THEN <<>>
    ELSE <<Mut("delete_subnet", subnet_id)>>

RECURSIVE Flatten(_)
Flatten(ss) == IF ss = <<>> THEN <<>> ELSE Head(ss) \o Flatten(Tail(ss))

\* delete_vpc_endpoints
delete_vpc_endpoints(w, v) ==
    IF v = NA THEN <<>>
    ELSE <<Read("describe_vpc_endpoints", v)>>
         \o [k \in 1..Len(DescribeVpcEndpoints(w, v)) |->
                Mut("delete_vpc_endpoints", DescribeVpcEndpoints(w, v)[k])]

\* delete_internet_gateways deleting a gateway before it is detached
DeleteThenDetach(igw_id) ==
    <<Mut("delete_internet_gateway", igw_id), Mut("detach_internet_gateway", igw_id)>>

\* the two calls delete_internet_gateways issues for one gateway
DetachAndDelete(igw_id) ==
    <<Mut("detach_internet_gateway", igw_id), Mut("delete_internet_gateway", igw_id)>>

\* delete_internet_gateways
delete_internet_gateways(w, v) ==
    IF v = NA THEN <<>>
    ELSE <<Read("describe_internet_gateways", v)>>
         \o Flatten([k \in 1..Len(DescribeInternetGateways(w, v)) |->
                        DetachAndDelete(DescribeInternetGateways(w, v)[k])])

\* delete_all_subnets
delete_all_subnets(w, v) ==
    IF v = NA THEN <<>>
    ELSE <<Read("describe_subnets", v)>>
         \o Flatten([k \in 1..Len(DescribeSubnets(w, v)) |->
                        delete_subnet(DescribeSubnets(w, v)[k])])

\* the last call of delete_vpc
delete_vpc_call(v) ==
    IF v = NA THEN <<>>
    ELSE <<Mut("delete_vpc", v)>>

\* the delete loop of delete_eks_cluster
delete_nodegroups(w, c) ==
    <<Read("list_nodegroups", c)>>
    \o [k \in 1..Len(ListNodegroups(w, c)) |-> Mut("delete_nodegroup", ListNodegroups(w, c)[k])]

\* ------------------------------------------------------------------ Init

\* the provider state of an account with the instances inst and the clusters cs
Account(inst, cs) ==
    [inst |-> inst,
     asgs |-> {inst[i].asg : i \in InstanceIds} \ {NA},
     assoc |-> {i \in InstanceIds : inst[i].profile # NA},
     igws |-> UNION {Range(VpcIgws(v)) : v \in Vpcs},
     igwAttached |-> UNION {Range(VpcIgws(v)) : v \in Vpcs},
     subnets |-> UNION {Range(VpcSubnets(v)) : v \in Vpcs},
     endpoints |-> UNION {Range(VpcEndpoints(v)) : v \in Vpcs},
     vpcs |-> Vpcs,
     clusters |-> cs,
     clusterDeleting |-> {},
     ngs |-> UNION {Range(ClusterNodegroups(cs[k].name)) : k \in 1..Len(cs)},
     ngDeleting |-> {}]

\* the command lines: --instance-id and --public-ip take one or more values or
\* are not given (the empty set), --vpc-id takes one value or is not given
CommandLines ==
    [instance_id : {{InstanceNames[k] : k \in 1..n} : n \in 0..MaxInst},
     public_ip : {{}, {AddressNames[1]}},
     vpc_id : {NONE} \cup Vpcs,
     no_dry_run : BOOLEAN]

\* main is not a single step
NoStep == [kind |-> NA, target |-> NA]

Init ==
    /\ \E inst \in [InstanceIds -> InstanceKinds], cs \in ClusterLists :
          aws = Account(inst, cs)
    /\ args \in CommandLines
    /\ pc = "start"
    /\ resources = EmptyResources(NONE)
    /\ first = EmptyResources(NONE)
    /\ vpc_id = args.vpc_id
    /\ idx = 1
    /\ node_groups = <<>>
    /\ ng_idx = 1
    /\ trace = <<>>
    /\ run = 1
    /\ removed = {}
    /\ step = NoStep
    /\ invoked = 0

\* --------------------------------------------------------------- actions

\* the calls cs issued with the exception of a failing call swallowed
IssueSwallowing(cs, rec, next) ==
    \E c \in {cs} : \E n \in Returning(aws, c) :
        /\ aws' = ApplyAll(aws, SubSeq(c, 1, n))
        /\ trace' = trace \o Logged(aws, c, n, rec)
        /\ pc' = next

\* the calls cs are issued in order for record rec; main goes on at next when
\* all of them return and ends with the exception of the first that raises
Issue(cs, rec, next) ==
    \E c \in {cs} : \E n \in Returning(aws, c) :
        /\ aws' = ApplyAll(aws, SubSeq(c, 1, n))
        /\ trace' = trace \o Logged(aws, c, n, rec)
        /\ pc' = IF n = Len(c) THEN next ELSE "failed"

\* main without the dry-run return
AfterPlanNoDryRun(res) ==
    IF res.Eks # NONE THEN "eks" ELSE "loop"

\* where main goes after a get_instances_details that returned res
AfterPlan(res) ==
    IF ~args.no_dry_run THEN "done"
    ELSE IF res.Eks # NONE THEN "eks"
    ELSE "loop"

\* main up to the dry-run return: the first get_instances_details and the report
Discover ==
    /\ pc = "start"
    /\ \E d \in {get_instances_details(aws, args.instance_id, args.public_ip, args.vpc_id)} :
          /\ Issue(d.reads, 0, IF d.raised THEN "raised" ELSE AfterPlan(d.res))
          /\ resources' = (IF pc' = "failed" THEN resources ELSE d.res)
          /\ first' = resources'
    /\ UNCHANGED <<args, vpc_id, idx, node_groups, ng_idx, run, removed, step, invoked>>

\* delete_eks_cluster: list the node groups and delete each
DeleteNodegroups ==
    /\ pc = "eks"
    /\ Issue(delete_nodegroups(aws, resources.Eks), 0, "eks_wait")
    /\ node_groups' = ListNodegroups(aws, resources.Eks)
    /\ ng_idx' = 1
    /\ UNCHANGED <<args, resources, first, vpc_id, idx, run, removed, step, invoked>>

\* delete_eks_cluster: the nodegroup_deleted waiter returns for the next group
WaitNodegroup ==
    /\ pc = "eks_wait"
    /\ ng_idx <= Len(node_groups)
    /\ \/ /\ node_groups[ng_idx] \notin aws.ngs
          /\ trace' = trace \o Logged(aws, <<Read("wait_nodegroup_deleted", node_groups[ng_idx])>>, 1, 0)
          /\ ng_idx' = ng_idx + 1
          /\ pc' = pc
       \/ /\ trace' = trace \o Logged(aws, <<Read("wait_nodegroup_deleted", node_groups[ng_idx])>>, 0, 0)
          /\ ng_idx' = ng_idx
          /\ pc' = "failed"
    /\ UNCHANGED <<aws, args, resources, first, vpc_id, idx, node_groups, run, removed, step, invoked>>

\* delete_eks_cluster: delete_cluster after the last wait
DeleteCluster ==
    /\ pc = "eks_wait"
    /\ ng_idx > Len(node_groups)
    /\ Issue(<<Mut("delete_cluster", resources.Eks)>>, 0, "eks_refetch")
    /\ UNCHANGED <<args, resources, first, vpc_id, idx, node_groups, ng_idx, run, removed, step, invoked>>

\* main going on with the resources fetched before the cluster was removed
RediscoverKeepsOld ==
    /\ pc = "eks_refetch"
    /\ \E d \in {get_instances_details(aws, args.instance_id, args.public_ip, args.vpc_id)} :
          Issue(d.reads, 0, IF d.raised THEN "raised" ELSE "loop")
    /\ UNCHANGED <<args, resources, first, vpc_id, idx, node_groups, ng_idx, run, removed, step, invoked>>

\* main: the resources are fetched again after the cluster is removed
Rediscover ==
    /\ pc = "eks_refetch"
    /\ \E d \in {get_instances_details(aws, args.instance_id, args.public_ip, args.vpc_id)} :
          /\ Issue(d.reads, 0, IF d.raised THEN "raised" ELSE "loop")
          /\ resources' = (IF pc' = "loop" THEN d.res ELSE resources)
    /\ UNCHANGED <<args, first, vpc_id, idx, node_groups, ng_idx, run, removed, step, invoked>>

\* the record the instance loop is at
Record == resources.Instances[idx]

InLoop == pc = "loop" /\ idx <= Len(resources.Instances)

\* main's loop body up to terminate_asg
TerminateAsg ==
    /\ InLoop
    /\ vpc_id' = (IF vpc_id = NONE THEN Record.VpcId ELSE vpc_id)
    /\ Issue(terminate_asg(Record.AutoScalingGroup), idx, "detach")
    /\ UNCHANGED <<args, resources, first, idx, node_groups, ng_idx, run, removed, step, invoked>>

\* main's loop body: detach_iam_instance_profile
DetachProfile ==
    /\ pc = "detach"
    /\ Issue(detach_iam_instance_profile(aws, Record.IamInstanceProfile), idx, "terminate")
    /\ UNCHANGED <<args, resources, first, vpc_id, idx, node_groups, ng_idx, run, removed, step, invoked>>

\* main's loop body: terminate_instance up to the waiter
TerminateInstance ==
    /\ pc = "terminate"
    /\ Issue(terminate_instance(Record.InstanceId), idx, "wait_term")
    /\ UNCHANGED <<args, resources, first, vpc_id, idx, node_groups, ng_idx, run, removed, step, invoked>>

\* terminate_instance going on without the waiter
NoWaitTerminated ==
    /\ pc = "wait_term"
    /\ trace' = trace
    /\ idx' = idx + 1
    /\ pc' = "loop"
    /\ UNCHANGED <<aws, args, resources, first, vpc_id, node_groups, ng_idx, run, removed, step, invoked>>

\* terminate_instance: the instance_terminated waiter returns
WaitTerminated ==
    /\ pc = "wait_term"
    /\ \/ /\ aws.inst[Record.InstanceId].state = "terminated"
          /\ trace' = trace \o Logged(aws, <<Read("wait_instance_terminated", Record.InstanceId)>>, 1, idx)
          /\ idx' = idx + 1
          /\ pc' = "loop"
       \/ /\ trace' = trace \o Logged(aws, <<Read("wait_instance_terminated", Record.InstanceId)>>, 0, idx)
          /\ idx' = idx
          /\ pc' = "failed"
    /\ UNCHANGED <<aws, args, resources, first, vpc_id, node_groups, ng_idx, run, removed, step, invoked>>

LoopDone == pc = "loop" /\ idx > Len(resources.Instances)

\* main returns after the loop when no network id is known
MainReturns ==
    /\ LoopDone
    /\ vpc_id = NONE
    /\ pc' = "done"
    /\ UNCHANGED <<aws, args, resources, first, vpc_id, idx, node_groups, ng_idx, trace, run, removed, step, invoked>>

\* delete_vpc: delete_vpc_endpoints
DeleteVpcEndpoints ==
    /\ LoopDone
    /\ vpc_id # NONE
    /\ Issue(delete_vpc_endpoints(aws, vpc_id), 0, "vpc_igw")
    /\ UNCHANGED <<args, resources, first, vpc_id, idx, node_groups, ng_idx, run, removed, step, invoked>>

\* delete_vpc: delete_internet_gateways
DeleteInternetGateways ==
    /\ pc = "vpc_igw"
    /\ Issue(delete_internet_gateways(aws, vpc_id), 0, "vpc_subnets")
    /\ UNCHANGED <<args, resources, first, vpc_id, idx, node_groups, ng_idx, run, removed, step, invoked>>

\* delete_vpc: delete_all_subnets
DeleteAllSubnets ==
    /\ pc = "vpc_subnets"
    /\ Issue(delete_all_subnets(aws, vpc_id), 0, "vpc_delete")
    /\ UNCHANGED <<args, resources, first, vpc_id, idx, node_groups, ng_idx, run, removed, step, invoked>>

\* delete_vpc: the delete_vpc call; main returns
DeleteVpc ==
    /\ pc = "vpc_delete"
    /\ Issue(delete_vpc_call(vpc_id), 0, "done")
    /\ UNCHANGED <<args, resources, first, vpc_id, idx, node_groups, ng_idx, run, removed, step, invoked>>

\* ------------------------------------------- provider: asynchronous deletions

\* an instance that is shutting down reaches the terminated state
InstanceTerminated ==
    \E i \in InstanceIds :
        /\ aws.inst[i].state = "shutting-down"
        /\ aws' = [aws EXCEPT !.inst[i].state = "terminated"]
        /\ UNCHANGED <<args, pc, resources, first, vpc_id, idx, node_groups, ng_idx, trace, run, removed, step, invoked>>

\* a node group that is being deleted is gone, and with it its instances
NodegroupDeleted ==
    \E g \in aws.ngDeleting :
        /\ aws' = [aws EXCEPT
                     !.ngs = @ \ {g},
                     !.ngDeleting = @ \ {g},
                     !.assoc = @ \ {i \in InstanceIds : aws.inst[i].ng = g},
                     !.inst = [i \in InstanceIds |->
                                  IF aws.inst[i].ng = g
                                  THEN [aws.inst[i] EXCEPT !.state = "terminated"]
                                  ELSE aws.inst[i]]]
        /\ UNCHANGED <<args, pc, resources, first, vpc_id, idx, node_groups, ng_idx, trace, run, removed, step, invoked>>

\* a cluster that is being deleted is gone
ClusterDeleted ==
    \E c \in aws.clusterDeleting :
        /\ aws' = [aws EXCEPT
                     !.clusters = SelectSeq(@, LAMBDA x : x.name # c),
                     !.clusterDeleting = @ \ {c}]
        /\ UNCHANGED <<args, pc, resources, first, vpc_id, idx, node_groups, ng_idx, trace, run, removed, step, invoked>>

Next ==
    \/ Discover
    \/ DeleteNodegroups
    \/ WaitNodegroup
    \/ DeleteCluster
    \/ Rediscover
    \/ TerminateAsg
    \/ DetachProfile
    \/ TerminateInstance
    \/ WaitTerminated
    \/ MainReturns
    \/ DeleteVpcEndpoints
    \/ DeleteInternetGateways
    \/ DeleteAllSubnets
    \/ DeleteVpc
    \/ InstanceTerminated
    \/ NodegroupDeleted
    \/ ClusterDeleted

Spec == Init /\ [][Next]_vars

\* ------------------------------------------------------------- a re-run

\* number of runs of the tool on one account
MaxRuns == 2

\* the mutating calls whose target exists no longer in provider state w
Removed(w) ==
    {Mut("delete_auto_scaling_group", a) : a \in ({w.inst[i].asg : i \in InstanceIds} \ {NA}) \ w.asgs}
    \cup {Mut("delete_vpc_endpoints", e) : e \in UNION {Range(VpcEndpoints(v)) : v \in Vpcs} \ w.endpoints}
    \cup {Mut("detach_internet_gateway", g) : g \in UNION {Range(VpcIgws(v)) : v \in Vpcs} \ w.igwAttached}
    \cup {Mut("delete_internet_gateway", g) : g \in UNION {Range(VpcIgws(v)) : v \in Vpcs} \ w.igws}
    \cup {Mut("delete_subnet", n) : n \in UNION {Range(VpcSubnets(v)) : v \in Vpcs} \ w.subnets}
    \cup {Mut("delete_vpc", v) : v \in Vpcs \ w.vpcs}
    \cup {Mut("terminate_instances", i) : i \in {j \in InstanceIds : w.inst[j].state = "terminated"}}

\* the tool is started again with the same command line after a run that
\* returned or ended with an exception
Rerun ==
    /\ pc \in {"done", "failed"}
    /\ run < MaxRuns
    /\ run' = run + 1
    /\ removed' = Removed(aws)
    /\ pc' = "start"
    /\ resources' = EmptyResources(NONE)
    /\ first' = EmptyResources(NONE)
    /\ vpc_id' = args.vpc_id
    /\ idx' = 1
    /\ node_groups' = <<>>
    /\ ng_idx' = 1
    /\ trace' = <<>>
    /\ UNCHANGED <<aws, args, step, invoked>>

InitRerun == Init /\ args.no_dry_run

NextRerun == Next \/ Rerun

SpecRerun == InitRerun /\ [][NextRerun]_vars

\* ------------------------------------------------ an execute run to its end

\* a step of main that issues provider calls other than a waiter
CallStep ==
    \/ Discover
    \/ DeleteNodegroups
    \/ DeleteCluster
    \/ Rediscover
    \/ TerminateAsg
    \/ DetachProfile
    \/ TerminateInstance
    \/ MainReturns
    \/ DeleteVpcEndpoints
    \/ DeleteInternetGateways
    \/ DeleteAllSubnets
    \/ DeleteVpc

\* a waiter returns
WaitReturns == (WaitNodegroup \/ WaitTerminated) /\ pc' # "failed"

\* an execute run: main goes on from call to call, each call returning or
\* raising; a node group or an instance whose deletion was requested reaches
\* its terminal state, and a waiter whose condition holds returns
SpecLive ==
    /\ InitRerun
    /\ [][Next]_vars
    /\ WF_vars(CallStep)
    /\ WF_vars(WaitReturns)
    /\ WF_vars(InstanceTerminated)
    /\ WF_vars(NodegroupDeleted)

\* ------------------------------------------------- a single step on its own

\* number of times a step is invoked in sequence
MaxInvocations == 2

\* delete_vpc
delete_vpc(w, v) ==
    IF v = NA THEN <<>>
    ELSE delete_vpc_endpoints(w, v) \o delete_internet_gateways(w, v)
         \o delete_all_subnets(w, v) \o delete_vpc_call(v)

\* the calls of terminate_instance with its waiter
terminate_instance_and_wait(instance_id) ==
    IF instance_id = NA THEN <<>>
    ELSE terminate_instance(instance_id) \o <<Read("wait_instance_terminated", instance_id)>>

\* the destructive steps and the targets they are invoked on: the "N/A"
\* marker or the identifier of a resource
Steps ==
    [kind : {"asg"}, target : {NA, "asg-1"}]
    \cup [kind : {"profile"}, target : {NA, "arn/p1", "arn/p2"}]
    \cup [kind : {"instance"}, target : {NA} \cup InstanceIds]
    \cup [kind : {"gateway"}, target : {NA} \cup Vpcs]
    \cup [kind : {"subnet"}, target : {NA} \cup UNION {Range(VpcSubnets(v)) : v \in Vpcs}]
    \cup [kind : {"network"}, target : {NA} \cup Vpcs]

\* the calls of step st from provider state w
StepCalls(w, st) ==
    CASE st.kind = "asg" -> terminate_asg(st.target)
      [] st.kind = "profile" -> detach_iam_instance_profile(w, st.target)
      [] st.kind = "instance" -> terminate_instance_and_wait(st.target)
      [] st.kind = "gateway" -> delete_internet_gateways(w, st.target)
      [] st.kind = "subnet" -> delete_subnet(st.target)
      [] st.kind = "network" -> delete_vpc(w, st.target)

\* an account in which every instance is terminated and every ASG,
\* association, endpoint, gateway, subnet and network is gone
TornDown(w) ==
    [w EXCEPT !.inst = [i \in InstanceIds |-> [w.inst[i] EXCEPT !.state = "terminated"]],
              !.asgs = {}, !.assoc = {}, !.igws = {}, !.igwAttached = {},
              !.subnets = {}, !.endpoints = {}, !.vpcs = {}]

InitStep ==
    /\ \E inst \in [InstanceIds -> InstanceKinds], cs \in ClusterLists :
          aws = TornDown(Account(inst, cs))
    /\ step \in Steps
    /\ invoked = 0
    /\ pc = "unit"
    /\ args = [instance_id |-> {}, public_ip |-> {}, vpc_id |-> NONE, no_dry_run |-> TRUE]
    /\ resources = EmptyResources(NONE)
    /\ first = EmptyResources(NONE)
    /\ vpc_id = NONE
    /\ idx = 1
    /\ node_groups = <<>>
    /\ ng_idx = 1
    /\ trace = <<>>
    /\ run = 1
    /\ removed = {}

\* the step is invoked once more
InvokeStep ==
    /\ pc = "unit"
    /\ invoked < MaxInvocations
    /\ Issue(StepCalls(aws, step), invoked + 1, "unit")
    /\ invoked' = invoked + 1
    /\ UNCHANGED <<args, resources, first, vpc_id, idx, node_groups, ng_idx, run, removed, step>>

SpecStep == InitStep /\ [][InvokeStep]_vars

\* ------------------------------------------------------------ the claims

Pos == 1..Len(trace)

ReturnedBefore(k, op, arg) ==
    \E j \in 1..(k - 1) : trace[j].op = op /\ trace[j].arg = arg /\ trace[j].ok

Execute == args.no_dry_run

\* C1: in an execute run, the terminate call of a record whose ASG name is not
\* "N/A" is preceded by the delete call of that ASG issued for the same record.
C1_AsgDeletedBeforeTerminate ==
    Execute =>
        \A k \in Pos :
            (trace[k].op = "terminate_instances"
             /\ resources.Instances[trace[k].rec].AutoScalingGroup # NA)
            => \E j \in 1..(k - 1) :
                  /\ trace[j].op = "delete_auto_scaling_group"
                  /\ trace[j].arg = resources.Instances[trace[k].rec].AutoScalingGroup
                  /\ trace[j].rec = trace[k].rec

\* a finished execute run that terminated an instance of an ASG
C1_Witness ==
    /\ Execute /\ pc = "done"
    /\ \E k \in Pos :
          /\ trace[k].op = "terminate_instances" /\ trace[k].ok
          /\ resources.Instances[trace[k].rec].AutoScalingGroup # NA

\* the position of a mutating call in delete_vpc's order: endpoints, gateways,
\* subnets, the network; 0 for every other call
Phase(c) ==
    CASE c.op = "delete_vpc_endpoints" -> 1
      [] c.op \in {"detach_internet_gateway", "delete_internet_gateway"} -> 2
      [] c.op = "delete_subnet" -> 3
      [] c.op = "delete_vpc" -> 4
      [] OTHER -> 0

\* C2: the teardown calls of a network are issued in the order endpoints,
\* gateways (each detached, then at once deleted), subnets, network; every
\* call names a resource of the network that is torn down; and when delete_vpc
\* is issued every endpoint, gateway and subnet of the network had its delete
\* call returned.
C2_NetworkTeardownOrder ==
    Execute =>
        /\ \A j, k \in Pos :
              (j < k /\ Phase(trace[j]) > 0 /\ Phase(trace[k]) > 0)
              => Phase(trace[j]) <= Phase(trace[k])
        /\ \A k \in Pos :
              /\ trace[k].op = "delete_vpc_endpoints" => trace[k].arg \in Range(VpcEndpoints(vpc_id))
              /\ Phase(trace[k]) = 2 => trace[k].arg \in Range(VpcIgws(vpc_id))
              /\ trace[k].op = "delete_subnet" => trace[k].arg \in Range(VpcSubnets(vpc_id))
              /\ trace[k].op = "delete_vpc" => trace[k].arg = vpc_id
              /\ (trace[k].op = "detach_internet_gateway" /\ trace[k].ok)
                 => /\ k < Len(trace)
                    /\ trace[k + 1].op = "delete_internet_gateway"
                    /\ trace[k + 1].arg = trace[k].arg
              /\ trace[k].op = "delete_internet_gateway"
                 => /\ k > 1
                    /\ trace[k - 1].op = "detach_internet_gateway"
                    /\ trace[k - 1].arg = trace[k].arg
                    /\ trace[k - 1].ok
              /\ trace[k].op = "delete_vpc"
                 => /\ \A e \in Range(VpcEndpoints(vpc_id)) : ReturnedBefore(k, "delete_vpc_endpoints", e)
                    /\ \A g \in Range(VpcIgws(vpc_id)) : ReturnedBefore(k, "delete_internet_gateway", g)
                    /\ \A n \in Range(VpcSubnets(vpc_id)) : ReturnedBefore(k, "delete_subnet", n)

\* a finished execute run that deleted a network with an endpoint, two gateways
\* and two subnets
C2_Witness ==
    /\ Execute /\ pc = "done"
    /\ \E k \in Pos : trace[k].op = "delete_vpc" /\ trace[k].ok /\ trace[k].arg = "vpc-1"
    /\ \E k \in Pos : trace[k].op = "delete_vpc_endpoints"
    /\ Cardinality({k \in Pos : trace[k].op = "delete_internet_gateway"}) = 2
    /\ Cardinality({k \in Pos : trace[k].op = "delete_subnet"}) = 2

\* C3: a dry run issues no mutating provider call.
C3_DryRunIssuesNoMutation ==
    ~Execute => \A k \in Pos : ~trace[k].mut

\* a finished dry run whose ResourceSet is network-only, lists gateways and
\* names a managed cluster
C3_Witness ==
    /\ ~Execute /\ pc = "done"
    /\ trace # <<>>
    /\ resources.Eks # NONE
    /\ resources.orphans
    /\ resources.InternetGatewayIds # <<>>

\* a call of the instance loop or of delete_vpc
InstanceOrNetworkStep(c) == c.rec > 0 \/ Phase(c) > 0

\* the first read of a get_instances_details call
DiscoveryRead(c) == c.op \in {"describe_instances", "describe_instances_in_vpc"}

\* the order of the calls of an execute run whose first ResourceSet names a cluster
C6_Order ==
    (Execute /\ first.Eks # NONE) =>
        \A k \in Pos :
            /\ trace[k].op = "delete_nodegroup" => trace[k].arg \in Range(ClusterNodegroups(first.Eks))
            /\ trace[k].op = "wait_nodegroup_deleted"
               => \A g \in Range(ClusterNodegroups(first.Eks)) : ReturnedBefore(k, "delete_nodegroup", g)
            /\ trace[k].op = "delete_cluster"
               => /\ trace[k].arg = first.Eks
                  /\ \A g \in Range(ClusterNodegroups(first.Eks)) :
                        /\ ReturnedBefore(k, "wait_nodegroup_deleted", g)
                        /\ g \notin aws.ngs
            /\ InstanceOrNetworkStep(trace[k])
               => \E c, d \in 1..(k - 1) :
                     /\ c < d
                     /\ trace[c].op = "delete_cluster" /\ trace[c].ok
                     /\ DiscoveryRead(trace[d]) /\ trace[d].ok
            /\ (trace[k].op = "terminate_instances" /\ trace[k].rec > 0)
               => trace[k].arg = resources.Instances[trace[k].rec].InstanceId
            /\ (trace[k].op = "delete_auto_scaling_group" /\ trace[k].rec > 0)
               => trace[k].arg = resources.Instances[trace[k].rec].AutoScalingGroup

\* the step from the re-discovery into the instance loop: the ResourceSet in
\* use becomes the result of get_instances_details on the original arguments
C6_Refetch ==
    (pc = "eks_refetch" /\ pc' = "loop")
    => /\ resources' = get_instances_details(aws, args.instance_id, args.public_ip,
                                             args.vpc_id).res
       /\ args' = args

\* the loop and delete_vpc work on the ResourceSet the loop was entered with
C6_Kept ==
    (pc \in {"loop", "detach", "terminate", "wait_term"}) => resources' = resources

\* C6: with a managed cluster in the first ResourceSet an execute run deletes
\* every node group, then waits for every node group, then deletes the
\* cluster, then calls get_instances_details again with the same arguments,
\* and only then issues instance and network steps, which work on the
\* ResourceSet fetched again.
C6_ClusterFirstThenRefetch ==
    /\ []C6_Order
    /\ [][C6_Refetch /\ C6_Kept]_vars

\* a finished execute run that removed a cluster with two node groups, fetched
\* a ResourceSet that differs from the first one, terminated an instance and
\* deleted the network
C6_Witness ==
    /\ Execute /\ pc = "done"
    /\ first.Eks # NONE
    /\ resources.Instances # first.Instances
    /\ Cardinality({k \in Pos : trace[k].op = "wait_nodegroup_deleted" /\ trace[k].ok}) >= 2
    /\ \E k \in Pos : trace[k].op = "terminate_instances" /\ trace[k].ok
    /\ \E k \in Pos : trace[k].op = "delete_vpc" /\ trace[k].ok

\* the networks for which a subnet-delete or network-delete call was issued
NetworksCut ==
    {v \in Vpcs : \E k \in Pos :
        \/ trace[k].op = "delete_subnet" /\ trace[k].arg \in Range(VpcSubnets(v))
        \/ trace[k].op = "delete_vpc" /\ trace[k].arg = v}

\* C4: no subnet-delete or network-delete call is issued for a network while
\* an instance attached to it is not terminated.  (An instance never leaves
\* the terminated state, so one that is not terminated now was not terminated
\* when the call was issued.)
C4_NoNetworkDeleteUnderLiveInstance ==
    Execute =>
        \A v \in NetworksCut :
            \A i \in InstanceIds : aws.inst[i].vpc = v => aws.inst[i].state = "terminated"

\* the query names a network and nothing else
ByNetworkOnly == args.vpc_id # NONE /\ args.instance_id = {} /\ args.public_ip = {}

\* get_instances_details has returned a ResourceSet
Discovered == pc \notin {"start", "failed", "raised", "unit"}

\* C5: after a discovery by network id alone, with an instance attached to the
\* network, every InstanceRecord is an instance of that network.
C5_NetworkQueryYieldsNetworkInstances ==
    (Discovered /\ ByNetworkOnly)
    => \A k \in 1..Len(first.Instances) : first.Instances[k].VpcId = args.vpc_id

\* C7: a discovery by network id that retains no instance returns the
\* network-only ResourceSet with the gateway and subnet ids of the network.
\* (Stated of a finished dry run: the provider state is the one queried.)
C7_NoInstancesMeansNetworkOnly ==
    (~Execute /\ pc = "done" /\ args.vpc_id # NONE /\ resources.Instances = <<>>)
    => /\ resources.orphans
       /\ resources.InternetGatewayIds = DescribeInternetGateways(aws, args.vpc_id)
       /\ resources.SubnetIds = DescribeSubnets(aws, args.vpc_id)

\* C10: when an execute run has finished, every instance, ASG, gateway, subnet
\* and network listed in the ResourceSet it worked on had its terminate or
\* delete call issued.
C10_EverythingListedIsDeleted ==
    (Execute /\ pc = "done") =>
        /\ \A r \in Range(resources.Instances) :
              /\ \E k \in Pos : trace[k].op = "terminate_instances" /\ trace[k].arg = r.InstanceId
              /\ r.AutoScalingGroup # NA
                 => \E k \in Pos : trace[k].op = "delete_auto_scaling_group"
                                   /\ trace[k].arg = r.AutoScalingGroup
              /\ \A g \in Range(r.InternetGatewayIds) :
                    \E k \in Pos : trace[k].op = "delete_internet_gateway" /\ trace[k].arg = g
              /\ \A n \in Range(r.SubnetIds) :
                    \E k \in Pos : trace[k].op = "delete_subnet" /\ trace[k].arg = n
              /\ r.VpcId # NONE
                 => \E k \in Pos : trace[k].op = "delete_vpc" /\ trace[k].arg = r.VpcId
        /\ \A g \in Range(resources.InternetGatewayIds) :
              \E k \in Pos : trace[k].op = "delete_internet_gateway" /\ trace[k].arg = g
        /\ \A n \in Range(resources.SubnetIds) :
              \E k \in Pos : trace[k].op = "delete_subnet" /\ trace[k].arg = n
        /\ resources.VpcId # NONE
           => \E k \in Pos : trace[k].op = "delete_vpc" /\ trace[k].arg = resources.VpcId

\* C8: in a re-run with the same command line no mutating call is issued for a
\* target the first run removed (such a step is skipped), so the re-run does
\* not end with the provider's NotFound error for it.
C8_RerunSkipsRemovedTargets ==
    run = 2 =>
        \A k \in Pos : trace[k].mut => Mut(trace[k].op, trace[k].arg) \notin removed

\* the target of the step is absent: the "N/A" marker, or an identifier whose
\* resource does not exist at the provider (a terminated instance, a network
\* without gateways)
TargetAbsent == pc \in {"unit", "failed"} /\ step \in Steps

\* C9: a destructive step invoked on an absent target, once or twice, issues
\* no mutating provider call and raises no error.
C9_StepOnAbsentTargetIsNoOp ==
    TargetAbsent =>
        /\ \A k \in Pos : ~trace[k].mut
        /\ \A k \in Pos : ~trace[k].exists => trace[k].ok

\* the part of C9 the code does provide: on the "N/A" marker a step issues no
\* provider call at all
C9_MarkerIsNoOp ==
    (TargetAbsent /\ step.target = NA) => (trace = <<>> /\ pc = "unit")

\* C11: a disassociate call issued for a record names an association whose
\* profile is the record's profile reference and whose instance is listed in
\* the ResourceSet.
C11_DetachOnlyTheRecordsAssociation ==
    Execute =>
        \A k \in Pos :
            (trace[k].op = "disassociate_iam_instance_profile" /\ trace[k].rec > 0)
            => /\ aws.inst[trace[k].arg].profile
                    = resources.Instances[trace[k].rec].IamInstanceProfile
               /\ trace[k].arg \in {resources.Instances[j].InstanceId :
                                       j \in 1..Len(resources.Instances)}

\* the part of C11 that holds: the profile of a disassociated association is
\* the record's profile reference
C11_DetachOnlyMatchingProfile ==
    Execute =>
        \A k \in Pos :
            (trace[k].op = "disassociate_iam_instance_profile" /\ trace[k].rec > 0)
            => aws.inst[trace[k].arg].profile
                  = resources.Instances[trace[k].rec].IamInstanceProfile

\* the instance ids of the records of a ResourceSet, in order
RecordIds(res) == [k \in 1..Len(res.Instances) |-> res.Instances[k].InstanceId]

\* a step in which get_instances_details returns a ResourceSet
DiscoveryReturns ==
    /\ pc \in {"start", "eks_refetch"}
    /\ pc' \in {"done", "eks", "loop"}

\* the instances the query of get_instances_details returns that are neither
\* stopped nor terminated, in the order of the response
LiveOfResponse ==
    SelectIn(DescribeInstances(aws, args.instance_id, args.public_ip),
             {i \in InstanceIds : aws.inst[i].state \notin {"stopped", "terminated"}})

\* no record of a ResourceSet was built from a stopped or terminated instance
C12_NoSkippedRecord ==
    \A res \in {first, resources} :
        \A k \in 1..Len(res.Instances) :
            res.Instances[k].State \notin {"stopped", "terminated"}

\* the records of a returned ResourceSet are the live instances of the
\* response, each once, in the order of the response, with the state returned
C12_RecordsAreLiveResponse ==
    (DiscoveryReturns /\ ~resources'.orphans)
    => /\ RecordIds(resources') = LiveOfResponse
       /\ \A k \in 1..Len(resources'.Instances) :
             resources'.Instances[k].State
                = aws.inst[resources'.Instances[k].InstanceId].state

\* C12: no stopped or terminated instance of a query result appears as an
\* InstanceRecord, and every other returned instance appears exactly once, in
\* the order of the response.
C12_StateExclusionAndOrder ==
    /\ []C12_NoSkippedRecord
    /\ [][C12_RecordsAreLiveResponse]_vars

\* the first discovery retained two instances in the order of the response and
\* the second one left out one of them, terminated in between
C12_Witness ==
    /\ pc = "loop"
    /\ RecordIds(first) = <<InstanceNames[1], InstanceNames[2]>>
    /\ RecordIds(resources) = <<InstanceNames[2]>>
    /\ aws.inst[InstanceNames[1]].state = "terminated"

\* the command line names no instance id, no public address and no network id
NothingGiven == args.instance_id = {} /\ args.public_ip = {} /\ args.vpc_id = NONE

\* C13: a discovery with no instance id, no public address and no network id
\* ends with the ValueError, and no provider call was issued before it.
C13_EmptyQueryRaisesBeforeAnyCall ==
    (NothingGiven /\ pc # "start") => (pc = "raised" /\ trace = <<>>)

\* a run that ended with the ValueError
C13_Witness == NothingGiven /\ pc = "raised" /\ args.no_dry_run

NetworkLookup(c) == c.op \in {"describe_internet_gateways", "describe_subnets"}

\* C14: the record of an instance without VpcId has empty gateway and subnet
\* lists, and no gateway or subnet lookup is issued for it: none follows its
\* ASG lookup, none is issued for the absent network id, and a discovery whose
\* records all lack a network issues none at all.
C14_NoNetworkNoLookup ==
    /\ \A res \in {first, resources} :
          \A k \in 1..Len(res.Instances) :
              res.Instances[k].VpcId = NONE
              => /\ res.Instances[k].InternetGatewayIds = <<>>
                 /\ res.Instances[k].SubnetIds = <<>>
    /\ \A k \in Pos :
          /\ NetworkLookup(trace[k]) => trace[k].arg # NONE
          /\ (trace[k].op = "describe_auto_scaling_instances"
              /\ aws.inst[trace[k].arg].vpc = NONE /\ k < Len(trace))
             => ~NetworkLookup(trace[k + 1])
    /\ (~Execute /\ pc = "done" /\ args.vpc_id = NONE
        /\ \A k \in 1..Len(first.Instances) : first.Instances[k].VpcId = NONE)
       => \A k \in Pos : ~NetworkLookup(trace[k])

\* a finished dry run by instance id whose one record has no network
C14_Witness ==
    /\ ~Execute /\ pc = "done"
    /\ args.instance_id = {InstanceNames[1]} /\ args.vpc_id = NONE
    /\ Len(first.Instances) = 1
    /\ first.Instances[1].VpcId = NONE
    /\ \E k \in Pos : trace[k].op = "describe_auto_scaling_instances"

\* the positions of the calls a step appends to the log
NewPos == (Len(trace) + 1)..Len(trace')

\* the instance of record j is terminated at the provider
RecordTerminated(j) == aws.inst[resources.Instances[j].InstanceId].state = "terminated"

\* a call of delete_vpc, its listings included
NetworkTeardownCall(c) ==
    c.rec = 0 /\ (Phase(c) > 0 \/ c.op = "describe_vpc_endpoints")

\* a step of an execute run: when a call of record r is issued the instances
\* of the records before r are terminated, and when a call of delete_vpc is
\* issued the instance of every record is terminated
C15_IssuedAfterTermination ==
    (Execute /\ pc \notin {"start", "unit"} /\ Len(trace') > Len(trace)) =>
        \A k \in NewPos :
            /\ trace'[k].rec > 0
               => \A j \in 1..(trace'[k].rec - 1) : RecordTerminated(j)
            /\ (NetworkTeardownCall(trace'[k]) /\ pc \in {"loop", "vpc_igw", "vpc_subnets", "vpc_delete"})
               => \A j \in 1..Len(resources.Instances) : RecordTerminated(j)

\* C15: no step of the next record is issued before the instance of the
\* previous record is terminated at the provider, and delete_vpc is not
\* started before the instance of every record is terminated.
C15_WaitsForTermination == [][C15_IssuedAfterTermination]_vars

\* a finished execute run over two records that deleted the network
C15_Witness ==
    /\ Execute /\ pc = "done"
    /\ Len(resources.Instances) = 2
    /\ \E k \in Pos : trace[k].op = "terminate_instances" /\ trace[k].rec = 2 /\ trace[k].ok
    /\ \E k \in Pos : trace[k].op = "delete_vpc" /\ trace[k].ok

\* a record that names no group issues no ASG call
C16_NoGroupNamedIsNoOp ==
    (Execute /\ pc \notin {"start", "unit"}) =>
        \A k \in Pos :
            (trace[k].rec > 0 /\ resources.Instances[trace[k].rec].AutoScalingGroup = NA)
            => trace[k].op # "delete_auto_scaling_group"

\* the group of call k was deleted by a call of an earlier record of the run
DeletedByEarlierRecord(k) ==
    \E j \in 1..(k - 1) :
        /\ trace[j].op = "delete_auto_scaling_group"
        /\ trace[j].arg = trace[k].arg
        /\ trace[j].rec < trace[k].rec
        /\ trace[j].ok

\* C16: the ASG step of a record whose group is absent is not an error: a
\* record that names no group issues no call, and the step of a record whose
\* group an earlier record of the run already deleted returns, so that the run
\* goes on with the record's detach and terminate steps.
C16_AbsentGroupIsNoError ==
    /\ C16_NoGroupNamedIsNoOp
    /\ \A k \in Pos :
          (trace[k].op = "delete_auto_scaling_group" /\ ~trace[k].exists /\ DeletedByEarlierRecord(k))
          => trace[k].ok

\* the network whose cluster the discovery is said to track: the queried one,
\* or the one of the first record when no network id was given
TrackedNetwork(res) ==
    IF args.vpc_id # NONE THEN args.vpc_id
    ELSE IF res.Instances = <<>> THEN NONE
    ELSE res.Instances[1].VpcId

\* no mutating call was issued yet: the provider state is the one queried
NothingChanged == \A k \in Pos : ~trace[k].mut

\* C17: the cluster a discovery tracks is the first listed cluster of the
\* queried network, or of the network of the first record when no network id
\* was given; a cluster of the network of a later record only is not tracked.
C17_TracksClusterOfFirstNetwork ==
    (Discovered /\ NothingChanged /\ first.Eks # NONE)
    => first.Eks = FirstClusterIn(aws.clusters, TrackedNetwork(first))

\* the tracked cluster is the first listed cluster of the queried network or
\* of the network of some record
C17_TracksClusterOfSomeRecord ==
    (Discovered /\ NothingChanged /\ first.Eks # NONE)
    => \/ first.Instances = <<>> /\ first.Eks = FirstClusterIn(aws.clusters, args.vpc_id)
       \/ \E k \in 1..Len(first.Instances) :
             first.Eks = FirstClusterIn(aws.clusters, first.Instances[k].VpcId)

\* the cluster the discovery tracked is still listed, on network v
TrackedClusterOn(v) ==
    \E c \in Range(aws.clusters) : c.name = first.Eks /\ c.vpc = v

\* a step that issues the delete_vpc call of a network is taken from a
\* provider state in which the tracked cluster of that network is gone
C18_IssuedAfterClusterGone ==
    (pc # "unit" /\ Len(trace') > Len(trace)) =>
        \A k \in NewPos :
            trace'[k].op = "delete_vpc" => ~TrackedClusterOn(trace'[k].arg)

\* C18: the delete_vpc call of a network is not issued while the cluster the
\* discovery tracked on that network has not reached its deleted state.
C18_NoNetworkDeleteUnderCluster == [][C18_IssuedAfterClusterGone]_vars

\* a call that raised is the last call of the run
C19_FailedCallIsLast ==
    \A k \in Pos : ~trace[k].ok => (k = Len(trace) /\ pc = "failed")

\* a run that ended with an exception issues no call
C19_FailedRunIsOver == pc = "failed" => (pc' = "failed" /\ trace' = trace)

\* C19: a provider call that fails, in the discovery or in the execute path,
\* ends the run: it is the last call of the log, and no call is issued after it.
C19_FailureStopsTheRun == []C19_FailedCallIsLast /\ [][C19_FailedRunIsOver]_vars

\* an execute run that a failing mutating call ended after another mutating
\* call had returned, with a record still to process
C19_Witness ==
    /\ Execute /\ pc = "failed"
    /\ idx < Len(resources.Instances)
    /\ \E k \in Pos :
          /\ trace[k].mut /\ ~trace[k].ok
          /\ \E j \in 1..(k - 1) : trace[j].mut /\ trace[j].ok

\* some provider call of the run raised
CallFailed == \E k \in Pos : ~trace[k].ok

\* a finished run whose network id is known (main's vpc_id: the queried id, or
\* the VpcId of the first record of the loop that has one) has deleted the network
C20_NetworkDeletedAtEnd ==
    (pc = "done" /\ vpc_id # NONE)
    => \E k \in Pos : trace[k].op = "delete_vpc" /\ trace[k].arg = vpc_id /\ trace[k].ok

\* a wait comes after the returned deletion call of what it waits for
C20_WaitAfterItsCall ==
    \A k \in Pos :
        /\ trace[k].op = "wait_instance_terminated"
           => ReturnedBefore(k, "terminate_instances", trace[k].arg)
        /\ trace[k].op = "wait_nodegroup_deleted"
           => ReturnedBefore(k, "delete_nodegroup", trace[k].arg)

\* C20: an execute run in which no provider call raises, and in which the
\* node groups and instances whose deletion was requested reach their
\* terminal state, finishes; it has then issued delete_vpc when the network
\* id is known; and every wait follows the deletion call it waits for.
C20_ExecuteRunFinishes ==
    /\ (pc = "start" /\ ~NothingGiven) ~> (pc = "done" \/ CallFailed)
    /\ []C20_NetworkDeletedAtEnd
    /\ []C20_WaitAfterItsCall

\* a finished run that waited for a node group and for an instance and
\* deleted the network
C20_Witness ==
    /\ pc = "done" /\ ~CallFailed
    /\ \E k \in Pos : trace[k].op = "wait_nodegroup_deleted" /\ trace[k].ok
    /\ \E k \in Pos : trace[k].op = "wait_instance_terminated" /\ trace[k].ok
    /\ \E k \in Pos : trace[k].op = "delete_vpc" /\ trace[k].ok

====
